---- MODULE Spec2Model ----
(***************************************************************************)
(* A model of the cache simulator of src/cache_sim.cpp (the second,        *)
(* complete CacheSim class of the file, lines 110-384).                    *)
(*                                                                         *)
(* The state is the object's fields.  One action, ProcessAccess, is one    *)
(* iteration of the loop of CacheSim::run: parse_line, probe and           *)
(* update_stats.  The variable log is a history variable: it records, for  *)
(* every access processed so far, the locals of that iteration (the parsed *)
(* record, the set, tag and slot index computed inside probe, and probe's  *)
(* result).  No operator of the model reads it.  The variable cout is what *)
(* the destructor's dump_stats has printed: the derived values of the      *)
(* report, or nothing yet.                                                 *)
(***************************************************************************)
EXTENDS Integers, Sequences, FiniteSets, TLC

VARIABLES block_size, associativity, capacity, miss_penalty, dirty_wb_penalty,
          set_offset, tag_offset, set_mask,
          tags, dirty, valid, priority,
          writes_, mem_accesses_, misses_, dirty_wb_, instructions_, cycles_,
          cout, log

settings == <<block_size, associativity, capacity, miss_penalty,
              dirty_wb_penalty, set_offset, tag_offset, set_mask>>
lines == <<tags, dirty, valid, priority>>
stats == <<writes_, mem_accesses_, misses_, dirty_wb_, instructions_, cycles_>>
vars == <<settings, lines, stats, cout, log>>

(***************************************************************************)
(* Bounds of the model.                                                    *)
(***************************************************************************)
\* addresses of the trace records are 0..MaxAddr
MaxAddr == 3
\* a trace record retires 0 or MaxInstr instructions
MaxInstr == 2
\* number of records in the trace file
MaxTrace == 3
\* SpecDecode: block sizes 2^0..2^MaxBlockBits, set counts 2^0..2^MaxSetBits,
\* associativities 2^0..2^MaxAssocBits, addresses 0..MaxDecodeAddr
MaxBlockBits == 2
MaxSetBits == 2
MaxAssocBits == 1
MaxDecodeAddr == 40

(***************************************************************************)
(* The hard-coded settings of main.                                        *)
(***************************************************************************)
main_block_size == 16
main_associativity == 1
main_capacity == 16384
main_miss_penalty == 30
main_dirty_wb_penalty == 2

(***************************************************************************)
(* Bit arithmetic on unsigned integers.                                    *)
(***************************************************************************)
RECURSIVE popcount(_)
popcount(x) == IF x <= 0 THEN 0 ELSE (x % 2) + popcount(x \div 2)

\* x >> n
shift_right(x, n) == x \div (2 ^ n)

RECURSIVE bit_and(_, _)
bit_and(x, y) ==
    IF x = 0 \/ y = 0 THEN 0
    ELSE (x % 2) * (y % 2) + 2 * bit_and(x \div 2, y \div 2)

(***************************************************************************)
(* The constructor CacheSim(input, bs, a, c, mp, wbp), in three parts: the *)
(* settings, the four vectors and the statistics.  resize                  *)
(* value-initialises the vectors: every tag 0, every dirty and valid flag  *)
(* 0 (FALSE), every priority 0.  All the arithmetic is unsigned.           *)
(***************************************************************************)
Settings(bs, a, c, mp, wbp) ==
    LET block_bits == popcount(bs - 1)
        sets == c \div (bs * a)
        set_bits == popcount(sets - 1)
    IN  /\ block_size = bs
        /\ associativity = a
        /\ capacity = c
        /\ miss_penalty = mp
        /\ dirty_wb_penalty = wbp
        /\ set_offset = block_bits
        /\ set_mask = sets - 1
        /\ tag_offset = block_bits + set_bits

ColdLines(num_blocks) ==
    /\ tags = [b \in 0..(num_blocks - 1) |-> 0]
    /\ dirty = [b \in 0..(num_blocks - 1) |-> FALSE]
    /\ valid = [b \in 0..(num_blocks - 1) |-> FALSE]
    /\ priority = [b \in 0..(num_blocks - 1) |-> 0]

ZeroStats ==
    /\ writes_ = 0
    /\ mem_accesses_ = 0
    /\ misses_ = 0
    /\ dirty_wb_ = 0
    /\ instructions_ = 0
    /\ cycles_ = 0

CacheSim(bs, a, c, mp, wbp) ==
    /\ Settings(bs, a, c, mp, wbp)
    /\ ColdLines(c \div bs)
    /\ ZeroStats

\* nothing has been printed: the state of std::cout until the destructor runs
NotPrinted ==
    [printed |-> FALSE, reads |-> 0, hits |-> 0,
     miss_rate |-> [kind |-> "none", num |-> 0, den |-> 0],
     ipc |-> [kind |-> "none", num |-> 0, den |-> 0]]

(***************************************************************************)
(* Address decoding.                                                       *)
(***************************************************************************)
get_set(address) == bit_and(shift_right(address, set_offset), set_mask)

\* mutant of get_tag: the tag is cut off above the block offset only
get_tag_from_set_offset(address) == shift_right(address, set_offset)

get_tag(address) == shift_right(address, tag_offset)

(***************************************************************************)
(* probe.  The lookup loop, as a recursion on the loop counter i; the      *)
(* result carries hit, index and invalid_index as the loop leaves them     *)
(* (index is left unset, shown as -1, when the loop finds no match).       *)
(***************************************************************************)
\* mutant of scan: every slot is compared with the tag of the set's first line
RECURSIVE scan_first_tag(_, _, _, _)
scan_first_tag(base, tag, i, invalid_index) ==
    IF i >= associativity
    THEN [hit |-> FALSE, index |-> -1, invalid_index |-> invalid_index]
    ELSE IF ~valid[base + i]
    THEN scan_first_tag(base, tag, i + 1, i)
    ELSE IF tag # tags[base]
    THEN scan_first_tag(base, tag, i + 1, invalid_index)
    ELSE [hit |-> TRUE, index |-> i, invalid_index |-> invalid_index]

\* mutant of scan: the first invalid slot met is kept, not the last
RECURSIVE scan_first_invalid(_, _, _, _)
scan_first_invalid(base, tag, i, invalid_index) ==
    IF i >= associativity
    THEN [hit |-> FALSE, index |-> -1, invalid_index |-> invalid_index]
    ELSE IF ~valid[base + i]
    THEN scan_first_invalid(base, tag, i + 1,
                            IF invalid_index < 0 THEN i ELSE invalid_index)
    ELSE IF tag # tags[base + i]
    THEN scan_first_invalid(base, tag, i + 1, invalid_index)
    ELSE [hit |-> TRUE, index |-> i, invalid_index |-> invalid_index]

RECURSIVE scan(_, _, _, _)
scan(base, tag, i, invalid_index) ==
    IF i >= associativity
    THEN [hit |-> FALSE, index |-> -1, invalid_index |-> invalid_index]
    ELSE IF ~valid[base + i]
    THEN scan(base, tag, i + 1, i)
    ELSE IF tag # tags[base + i]
    THEN scan(base, tag, i + 1, invalid_index)
    ELSE [hit |-> TRUE, index |-> i, invalid_index |-> invalid_index]

\* mutant of max_element: the last largest one
max_element_last(base) ==
    CHOOSE i \in 0..(associativity - 1) :
        /\ \A j \in 0..(associativity - 1) : priority[base + j] <= priority[base + i]
        /\ \A j \in (i + 1)..(associativity - 1) :
              priority[base + j] < priority[base + i]

\* std::ranges::max_element over the set's priorities: the first largest one
max_element(base) ==
    CHOOSE i \in 0..(associativity - 1) :
        /\ \A j \in 0..(associativity - 1) : priority[base + j] <= priority[base + i]
        /\ \A j \in 0..(i - 1) : priority[base + j] < priority[base + i]

\* mutant of replacement: the open line is not used
replacement_without_open_line(base, invalid_index) == max_element(base)

\* the line to replace on a miss
replacement(base, invalid_index) ==
    IF invalid_index >= 0 THEN invalid_index ELSE max_element(base)

\* mutant of replaced_dirty: the dirty flag of the set's first line is read
replaced_dirty_of_first_line(base, index) == dirty[base]

\* mutant of replaced_dirty: the flag of the replaced line is not read
replaced_dirty_not_read(base, index) == FALSE

\* dirty_wb = local_dirty[index]
replaced_dirty(base, index) == dirty[base + index]

\* mutant of transform: only the priorities strictly below that of index move
RECURSIVE transform_strict(_, _, _, _)
transform_strict(pri, base, index, i) ==
    IF i >= associativity THEN pri
    ELSE LET p == pri[base + i]
             q == IF p < pri[base + index] /\ p < associativity
                  THEN p + 1 ELSE p
         IN  transform_strict([pri EXCEPT ![base + i] = q], base, index, i + 1)

\* std::transform over the set's priorities, in place and front to back: the
\* lambda reads local_priority[index] from the vector being rewritten, so a
\* slot after index is compared with the value already stored at index.
RECURSIVE transform(_, _, _, _)
transform(pri, base, index, i) ==
    IF i >= associativity THEN pri
    ELSE LET p == pri[base + i]
             q == IF p <= pri[base + index] /\ p < associativity
                  THEN p + 1 ELSE p
         IN  transform([pri EXCEPT ![base + i] = q], base, index, i + 1)

\* the priorities after the update: transform, then local_priority[index] = 0
update_priority(base, index) ==
    [transform(priority, base, index, 0) EXCEPT ![base + index] = 0]

\* mutant of access_cycles: each memory access is one cycle
access_cycles_with_base(hit, dirty_wb) ==
    1 + (IF ~hit THEN miss_penalty ELSE 0)
      + (IF dirty_wb THEN dirty_wb_penalty ELSE 0)

\* the cycles of an access
access_cycles(hit, dirty_wb) ==
    0 + (IF ~hit THEN miss_penalty ELSE 0)
      + (IF dirty_wb THEN dirty_wb_penalty ELSE 0)

\* mutant of probe: the base of the set is the set number, not
\* set * associativity
probe_base_not_scaled(type, address) ==
    LET set == get_set(address)
        tag == get_tag(address)
        base == set
        found == scan(base, tag, 0, -1)
        hit == found.hit
        index == IF hit THEN found.index
                 ELSE replacement(base, found.invalid_index)
        dirty_wb == IF hit THEN FALSE ELSE replaced_dirty(base, index)
    IN  [hit |-> hit,
         dirty_wb |-> dirty_wb,
         cycles |-> access_cycles(hit, dirty_wb),
         set |-> set, tag |-> tag, index |-> index,
         tags |-> IF hit THEN tags ELSE [tags EXCEPT ![base + index] = tag],
         dirty |-> [dirty EXCEPT ![base + index] = type],
         priority |-> update_priority(base, index)]

\* probe(type, address): the returned tuple (hit, dirty_wb, cycles), the
\* locals set, tag and index, and the vectors as probe leaves them.
probe(type, address) ==
    LET set == get_set(address)
        tag == get_tag(address)
        base == set * associativity
        found == scan(base, tag, 0, -1)
        hit == found.hit
        index == IF hit THEN found.index
                 ELSE replacement(base, found.invalid_index)
        dirty_wb == IF hit THEN FALSE ELSE replaced_dirty(base, index)
    IN  [hit |-> hit,
         dirty_wb |-> dirty_wb,
         cycles |-> access_cycles(hit, dirty_wb),
         set |-> set, tag |-> tag, index |-> index,
         tags |-> IF hit THEN tags ELSE [tags EXCEPT ![base + index] = tag],
         dirty |-> [dirty EXCEPT ![base + index] = type],
         priority |-> update_priority(base, index)]

\* mutant of update_stats: each memory access is one more cycle
update_stats_with_base_cycle(instructions, type, hit, dirty_wb, cycles) ==
    /\ mem_accesses_' = mem_accesses_ + 1
    /\ writes_' = writes_ + (IF type THEN 1 ELSE 0)
    /\ misses_' = misses_ + (IF ~hit THEN 1 ELSE 0)
    /\ instructions_' = instructions_ + instructions
    /\ dirty_wb_' = dirty_wb_ + (IF dirty_wb THEN 1 ELSE 0)
    /\ cycles_' = cycles_ + cycles + 1

\* mutant of update_stats: the hits are counted as misses
update_stats_counting_hits(instructions, type, hit, dirty_wb, cycles) ==
    /\ mem_accesses_' = mem_accesses_ + 1
    /\ writes_' = writes_ + (IF type THEN 1 ELSE 0)
    /\ misses_' = misses_ + (IF hit THEN 1 ELSE 0)
    /\ instructions_' = instructions_ + instructions
    /\ dirty_wb_' = dirty_wb_ + (IF dirty_wb THEN 1 ELSE 0)
    /\ cycles_' = cycles_ + cycles

(***************************************************************************)
(* update_stats.                                                           *)
(***************************************************************************)
update_stats(instructions, type, hit, dirty_wb, cycles) ==
    /\ mem_accesses_' = mem_accesses_ + 1
    /\ writes_' = writes_ + (IF type THEN 1 ELSE 0)
    /\ misses_' = misses_ + (IF ~hit THEN 1 ELSE 0)
    /\ instructions_' = instructions_ + instructions
    /\ dirty_wb_' = dirty_wb_ + (IF dirty_wb THEN 1 ELSE 0)
    /\ cycles_' = cycles_ + cycles

(***************************************************************************)
(* parse_line.  A line of the trace is "# <type> <address> <instructions>";*)
(* it is modelled by its three scanned fields.  The int type is converted  *)
(* to bool by the returned tuple.                                          *)
(***************************************************************************)
parse_line(access) ==
    [type |-> access.type # 0,
     address |-> access.address,
     instructions |-> access.instructions]

(***************************************************************************)
(* One iteration of the loop of run, for one line of the trace.  probe     *)
(* never writes the valid vector.                                          *)
(***************************************************************************)
run(line) ==
    LET rec == parse_line(line)
        r == probe(rec.type, rec.address)
    IN  /\ tags' = r.tags
        /\ dirty' = r.dirty
        /\ priority' = r.priority
        /\ update_stats(rec.instructions, rec.type, r.hit, r.dirty_wb, r.cycles)
        /\ log' = Append(log, [type |-> rec.type,
                               address |-> rec.address,
                               instructions |-> rec.instructions,
                               set |-> r.set, tag |-> r.tag, index |-> r.index,
                               hit |-> r.hit, dirty_wb |-> r.dirty_wb,
                               cycles |-> r.cycles])
        /\ UNCHANGED <<settings, valid, cout>>

(***************************************************************************)
(* Spec: the simulator from construction, on every trace of at most        *)
(* MaxTrace records, for a few small power-of-two geometries.              *)
(***************************************************************************)
\* <<block_size, associativity, capacity>>: one two-way set, two two-way
\* sets, one direct-mapped set of two-byte blocks
Geometries == {<<1, 2, 2>>, <<1, 2, 4>>, <<2, 1, 2>>}

Addresses == 0..MaxAddr

TraceLines == [type : 0..1, address : Addresses, instructions : {0, MaxInstr}]

Init ==
    /\ \E g \in Geometries :
          CacheSim(g[1], g[2], g[3], main_miss_penalty, main_dirty_wb_penalty)
    /\ cout = NotPrinted
    /\ log = << >>

ProcessAccess ==
    /\ Len(log) < MaxTrace
    /\ \E line \in TraceLines : run(line)

Next == ProcessAccess

Spec == Init /\ [][Next]_vars

(***************************************************************************)
(* SpecStep: probe as a step function.  What one probe does depends only   *)
(* on the settings, on the lines of the addressed set and on the access;   *)
(* SpecStep applies one access to every content of one set (every tag the  *)
(* addresses can give, every valid and dirty flag, every priority the      *)
(* update can store, 0..associativity), the other sets being as            *)
(* constructed.                                                            *)
(***************************************************************************)
AnySetContents ==
    LET a == associativity
        num_blocks == capacity \div block_size
        slots == 0..(a - 1)
    IN  \E s \in 0..set_mask :
        \E t \in [slots -> {get_tag(x) : x \in Addresses}],
           v \in [slots -> BOOLEAN], d \in [slots -> BOOLEAN],
           p \in [slots -> 0..a] :
            /\ tags = [b \in 0..(num_blocks - 1) |->
                          IF b \div a = s THEN t[b % a] ELSE 0]
            /\ valid = [b \in 0..(num_blocks - 1) |->
                          IF b \div a = s THEN v[b % a] ELSE FALSE]
            /\ dirty = [b \in 0..(num_blocks - 1) |->
                          IF b \div a = s THEN d[b % a] ELSE FALSE]
            /\ priority = [b \in 0..(num_blocks - 1) |->
                          IF b \div a = s THEN p[b % a] ELSE 0]

InitStep ==
    /\ \E g \in Geometries :
          Settings(g[1], g[2], g[3], main_miss_penalty, main_dirty_wb_penalty)
    /\ AnySetContents
    /\ ZeroStats
    /\ cout = NotPrinted
    /\ log = << >>

StepAccess ==
    /\ log = << >>
    /\ \E line \in TraceLines : run(line)

NextStep == StepAccess

SpecStep == InitStep /\ [][NextStep]_vars

(***************************************************************************)
(* SpecDecode: the address decoding of one access, from construction, for  *)
(* every geometry of block size 2^0..2^MaxBlockBits, 2^0..2^MaxSetBits     *)
(* sets and associativity 2^0..2^MaxAssocBits, and for the geometry of     *)
(* main; the addresses are 0..MaxDecodeAddr and the same addresses one     *)
(* block_size * sets further.                                              *)
(***************************************************************************)
DecodeGeometries ==
    {<<2 ^ bb, 2 ^ ab, 2 ^ (bb + ab + sb)>> :
        bb \in 0..MaxBlockBits, ab \in 0..MaxAssocBits, sb \in 0..MaxSetBits}
    \cup {<<main_block_size, main_associativity, main_capacity>>}

DecodeAddresses ==
    (0..MaxDecodeAddr)
    \cup {x + block_size * (set_mask + 1) : x \in 0..MaxDecodeAddr}

InitDecode ==
    /\ \E g \in DecodeGeometries :
          CacheSim(g[1], g[2], g[3], main_miss_penalty, main_dirty_wb_penalty)
    /\ cout = NotPrinted
    /\ log = << >>

DecodeAccess ==
    /\ log = << >>
    /\ \E line \in [type : 0..1, address : DecodeAddresses,
                    instructions : {MaxInstr}] : run(line)

NextDecode == DecodeAccess

SpecDecode == InitDecode /\ [][NextDecode]_vars

(***************************************************************************)
(* dump_stats, run by the destructor when main returns.  The two derived   *)
(* values are divisions of doubles: x / 0.0 is NaN for x = 0 and infinity  *)
(* for x > 0, and NaN * 100.0 is NaN.  A finite quotient is kept as the    *)
(* fraction num / den (the rounding to double is not modelled).            *)
(***************************************************************************)
double_div(x, y) ==
    IF y = 0
    THEN [kind |-> IF x = 0 THEN "nan" ELSE "inf", num |-> 0, den |-> 0]
    ELSE [kind |-> "number", num |-> x, den |-> y]

\* q * 100.0
times_100(q) ==
    IF q.kind = "number" THEN [q EXCEPT !.num = q.num * 100] ELSE q

dump_stats ==
    /\ ~cout.printed
    /\ cout' = [printed |-> TRUE,
                reads |-> mem_accesses_ - writes_,
                hits |-> mem_accesses_ - misses_,
                miss_rate |-> times_100(double_div(misses_, mem_accesses_)),
                ipc |-> double_div(instructions_, cycles_)]
    /\ UNCHANGED <<settings, lines, stats, log>>

(***************************************************************************)
(* SpecReport: main.  The simulator is constructed, run processes the      *)
(* lines of a trace of at most MaxTrace records, and at the end of the     *)
(* file the destructor prints the report.                                  *)
(***************************************************************************)
ReadLine ==
    /\ ~cout.printed
    /\ ProcessAccess

EndOfFile == dump_stats

NextReport == ReadLine \/ EndOfFile

SpecReport == Init /\ [][NextReport]_vars

(***************************************************************************)
(* SpecConfig: the constructor called with a geometry that is not valid,   *)
(* followed by run.  The constructor has no check and no error exit.       *)
(***************************************************************************)
\* block_size 3; associativity 3; 3 sets; capacity 3 not a multiple of
\* block_size * associativity = 2
InvalidGeometries == {<<3, 1, 6>>, <<1, 3, 3>>, <<1, 1, 3>>, <<2, 1, 3>>}

InitConfig ==
    /\ \E g \in InvalidGeometries :
          CacheSim(g[1], g[2], g[3], main_miss_penalty, main_dirty_wb_penalty)
    /\ cout = NotPrinted
    /\ log = << >>

NextConfig == ProcessAccess

SpecConfig == InitConfig /\ [][NextConfig]_vars

(***************************************************************************)
(* Vocabulary of the claims.                                               *)
(***************************************************************************)
\* the line (position in the four vectors) that the access of log entry e used
LineOf(e) == e.set * associativity + e.index

\* the lines of set s
LinesOfSet(s) == {s * associativity + i : i \in 0..(associativity - 1)}

Sets == 0..set_mask

\* the entries of the log that address set s, in order
AccessesOfSet(s) == SelectSeq(log, LAMBDA e : e.set = s)

(***************************************************************************)
(* C1: once an address has been probed, every later probe of an address    *)
(* with the same tag and set index is a hit, as long as no probe in        *)
(* between has replaced the block's line (a miss that used the same line); *)
(* in particular the second of two consecutive probes of one address hits. *)
(***************************************************************************)
C1_ReprobeHits ==
    \A i \in 1..Len(log) : \A j \in (i + 1)..Len(log) :
        ( /\ log[j].set = log[i].set
          /\ log[j].tag = log[i].tag
          /\ \A k \in (i + 1)..(j - 1) :
                ~(~log[k].hit /\ LineOf(log[k]) = LineOf(log[i])) )
        => log[j].hit

C3_LRUOrder ==
    \A s \in Sets :
        LET sub == AccessesOfSet(s)
            N == associativity
            Distinct == \A i, j \in 1..N : i # j => sub[i].tag # sub[j].tag
            Repeats(n) == \A k \in (N + 1)..n : sub[k].tag = sub[k - N].tag
        IN  (Len(sub) >= N /\ Distinct) =>
            /\ \A n \in 1..N : ~sub[n].hit
            /\ \A n \in (N + 1)..Len(sub) :
                  (n <= 2 * N /\ Repeats(n)) => sub[n].hit
            /\ ( /\ Len(sub) = 2 * N + 1
                 /\ Repeats(2 * N)
                 /\ \A k \in 1..N : sub[2 * N + 1].tag # sub[k].tag )
               => /\ ~sub[2 * N + 1].hit
                  /\ sub[2 * N + 1].index = sub[1].index
                  /\ \A k \in 2..N :
                        \E b \in LinesOfSet(s) : tags[b] = sub[k].tag

(***************************************************************************)
(* C4: dirty writeback on eviction.  When an access misses and replaces a  *)
(* resident line (a line that an earlier miss filled), dirty_wb is true if *)
(* the line received a write while resident and false if it received only  *)
(* reads.  The accesses a line received while resident are the miss that   *)
(* filled it and the hits on it since.                                     *)
(***************************************************************************)
\* the entry of the miss that filled the line replaced by entry j (0: none)
FillOf(j) ==
    LET fills == {m \in 1..(j - 1) :
                     ~log[m].hit /\ LineOf(log[m]) = LineOf(log[j])}
    IN  IF fills = {} THEN 0
        ELSE CHOOSE m \in fills : \A n \in fills : n <= m

\* the entries of the accesses received by that line while resident
ResidentAccesses(j) ==
    {k \in FillOf(j)..(j - 1) : LineOf(log[k]) = LineOf(log[j])}

C4_DirtyWriteback ==
    \A j \in 1..Len(log) :
        (~log[j].hit /\ FillOf(j) # 0) =>
            /\ (\E k \in ResidentAccesses(j) : log[k].type) => log[j].dirty_wb
            /\ (\A k \in ResidentAccesses(j) : ~log[k].type) => ~log[j].dirty_wb

\* a written line and a read line have both been replaced
C4_Witness ==
    /\ \E j \in 1..Len(log) :
          ~log[j].hit /\ FillOf(j) # 0 /\ log[FillOf(j)].type /\ log[j].dirty_wb
    /\ \E j \in 1..Len(log) :
          ~log[j].hit /\ FillOf(j) # 0 /\ ~log[FillOf(j)].type /\ ~log[j].dirty_wb

C6_TagsUnique ==
    [][(\A s \in Sets : \A b, c \in LinesOfSet(s) :
            (b # c /\ valid[b] /\ valid[c]) => tags[b] # tags[c])
       => (\A s \in Sets : \A b, c \in LinesOfSet(s) :
            (b # c /\ valid'[b] /\ valid'[c]) => tags'[b] # tags'[c])
      ]_vars

\* a miss has replaced a valid line of a set that has another valid line, and
\* the valid lines of the set hold distinct tags
C6_Witness ==
    /\ Len(log) = 1
    /\ ~log[1].hit
    /\ valid[LineOf(log[1])]
    /\ \E c \in LinesOfSet(log[1].set) : c # LineOf(log[1]) /\ valid[c]
    /\ \A b, c \in LinesOfSet(log[1].set) :
          (b # c /\ valid[b] /\ valid[c]) => tags[b] # tags[c]

(***************************************************************************)
(* C7: a line is invalid until the first access that uses it and valid     *)
(* from then on: the valid lines are exactly the lines that some access    *)
(* has used.                                                               *)
(***************************************************************************)
C7_UsedLinesValid ==
    \A b \in DOMAIN valid :
        valid[b] <=> (\E i \in 1..Len(log) : LineOf(log[i]) = b)

(***************************************************************************)
(* C8: address decoding.  With num_sets = capacity / (block_size *         *)
(* associativity): the set of an access is floor(address / block_size) mod *)
(* num_sets and its tag is floor(address / (block_size * num_sets)); an    *)
(* address has the same set and tag exactly when it lies in the same       *)
(* block; and the address block_size * num_sets further has the same set   *)
(* and another tag.                                                        *)
(***************************************************************************)
C8_Decode ==
    \A i \in 1..Len(log) :
        LET num_sets == capacity \div (block_size * associativity)
            a == log[i].address
            far == a + block_size * num_sets
        IN  /\ log[i].set = (a \div block_size) % num_sets
            /\ log[i].tag = a \div (block_size * num_sets)
            /\ \A b \in DecodeAddresses :
                  (get_set(b) = log[i].set /\ get_tag(b) = log[i].tag)
                  <=> (b \div block_size = a \div block_size)
            /\ get_set(far) = log[i].set
            /\ get_tag(far) # log[i].tag

\* the geometry of main: address 0x4000 decodes to set 0 with tag 1, and
\* address 0 to set 0 with tag 0
C8_Witness ==
    /\ block_size = main_block_size
    /\ associativity = main_associativity
    /\ capacity = main_capacity
    /\ Len(log) = 1
    /\ log[1].address = main_capacity
    /\ log[1].set = 0 /\ log[1].tag = 1
    /\ get_set(0) = 0 /\ get_tag(0) = 0

(***************************************************************************)
(* C9: a probe that misses in a set with an invalid line puts the new tag  *)
(* in an invalid line of that set and leaves the tag of every valid line   *)
(* of the set as it was.                                                   *)
(***************************************************************************)
C9_FreeLineFirst ==
    [][LET e == log'[Len(log')]
       IN  ( /\ Len(log') = Len(log) + 1
             /\ ~e.hit
             /\ \E b \in LinesOfSet(e.set) : ~valid[b] )
           => /\ LineOf(e) \in LinesOfSet(e.set)
              /\ ~valid[LineOf(e)]
              /\ tags'[LineOf(e)] = e.tag
              /\ \A b \in LinesOfSet(e.set) : valid[b] => tags'[b] = tags[b]
      ]_vars

\* a miss in a set with a valid line and an invalid line: the invalid line
\* holds the new tag
C9_Witness ==
    /\ Len(log) = 1
    /\ ~log[1].hit
    /\ ~valid[LineOf(log[1])]
    /\ tags[LineOf(log[1])] = log[1].tag
    /\ \E b \in LinesOfSet(log[1].set) : valid[b] /\ tags[b] # log[1].tag

(***************************************************************************)
(* C10: each processed access adds 1 to the accesses, 1 to the writes iff  *)
(* it is a write, 1 to the misses iff the probe missed, 1 to the dirty     *)
(* writebacks iff the probe returned dirty_wb, the record's instruction    *)
(* count to the instructions and the probe's cycles to the cycles; no      *)
(* counter decreases.                                                      *)
(***************************************************************************)
C10_Counters ==
    [][LET e == log'[Len(log')]
       IN  Len(log') = Len(log) + 1 =>
           /\ mem_accesses_' = mem_accesses_ + 1
           /\ writes_' = writes_ + (IF e.type THEN 1 ELSE 0)
           /\ misses_' = misses_ + (IF e.hit THEN 0 ELSE 1)
           /\ dirty_wb_' = dirty_wb_ + (IF e.dirty_wb THEN 1 ELSE 0)
           /\ instructions_' = instructions_ + e.instructions
           /\ cycles_' = cycles_ + e.cycles
           /\ mem_accesses_' >= mem_accesses_ /\ writes_' >= writes_
           /\ misses_' >= misses_ /\ dirty_wb_' >= dirty_wb_
           /\ instructions_' >= instructions_ /\ cycles_' >= cycles_
      ]_vars

\* a read and then a write that reports a dirty writeback have been counted
C10_Witness ==
    /\ Len(log) = 3
    /\ ~log[1].type /\ log[2].type /\ log[3].dirty_wb
    /\ log[1].instructions = 0 /\ log[2].instructions = MaxInstr
    /\ mem_accesses_ = 3
    /\ writes_ < mem_accesses_ /\ writes_ > 0
    /\ dirty_wb_ > 0 /\ dirty_wb_ < misses_
    /\ instructions_ > 0
    /\ cycles_ > misses_ * miss_penalty

(***************************************************************************)
(* C11: in a direct-mapped cache, while the accesses to a set alternate    *)
(* between two tags, every access to the set after the first misses and    *)
(* its dirty_wb is the type (write: true, read: false) of the access to    *)
(* the set just before it.                                                 *)
(***************************************************************************)
Alternates(sub, n) ==
    \A k \in 2..n : /\ sub[k].tag # sub[k - 1].tag
                    /\ k >= 3 => sub[k].tag = sub[k - 2].tag

C11_PingPong ==
    associativity = 1 =>
        \A s \in Sets :
            LET sub == AccessesOfSet(s)
            IN  \A n \in 2..Len(sub) :
                    Alternates(sub, n) =>
                        /\ ~sub[n].hit
                        /\ sub[n].dirty_wb = sub[n - 1].type

\* write A, read B, read A: B reports the writeback of A, A reports none
C11_Witness ==
    /\ associativity = 1
    /\ Len(log) = 3
    /\ Alternates(log, 3)
    /\ log[1].type /\ ~log[2].type
    /\ ~log[2].hit /\ log[2].dirty_wb
    /\ ~log[3].hit /\ ~log[3].dirty_wb

(***************************************************************************)
(* C12: a simulator constructed with a block_size, an associativity or a   *)
(* set count that is not a power of two, or with a capacity that is not a  *)
(* multiple of block_size * associativity, never probes an access.         *)
(***************************************************************************)
IsPowerOfTwo(x) == popcount(x) = 1

ValidGeometry ==
    /\ IsPowerOfTwo(block_size)
    /\ IsPowerOfTwo(associativity)
    /\ capacity % (block_size * associativity) = 0
    /\ IsPowerOfTwo(capacity \div (block_size * associativity))

C12_InvalidRejected ==
    ~ValidGeometry => (log = << >> /\ mem_accesses_ = 0)

(***************************************************************************)
(* C13: in the report, the miss rate of a run with no access and the IPC   *)
(* of a run with no cycle are an explicit undefined result, not the result *)
(* of a division by the zero counter.                                      *)
(***************************************************************************)
C13_UndefinedReported ==
    cout.printed =>
        /\ mem_accesses_ = 0 => cout.miss_rate.kind = "undefined"
        /\ cycles_ = 0 => cout.ipc.kind = "undefined"

(***************************************************************************)
(* C14: the priority update as a step function.  For a set whose           *)
(* priorities all lie in 0..associativity-1 and an access that uses the    *)
(* line at index, of rank old_rank before the probe: after the probe the   *)
(* priority of that line is 0, every other line of the set whose priority  *)
(* was <= old_rank has it increased by exactly 1, and every other line     *)
(* whose priority was > old_rank has it unchanged, before or after index.  *)
(***************************************************************************)
C14_PriorityStep ==
    [][LET e == log'[Len(log')]
           old_rank == priority[LineOf(e)]
       IN  ( /\ Len(log') = Len(log) + 1
             /\ \A b \in LinesOfSet(e.set) :
                   priority[b] \in 0..(associativity - 1) )
           => /\ priority'[LineOf(e)] = 0
              /\ \A b \in LinesOfSet(e.set) \ {LineOf(e)} :
                    priority'[b] = IF priority[b] <= old_rank
                                   THEN priority[b] + 1
                                   ELSE priority[b]
      ]_vars

(***************************************************************************)
(* C15: when a probe misses in a set whose lines are all valid, the line   *)
(* it replaces holds the largest priority of the set, and of the lines     *)
(* that hold it, it is the one at the lowest slot.                         *)
(***************************************************************************)
C15_VictimIsFirstMaximum ==
    [][LET e == log'[Len(log')]
       IN  ( /\ Len(log') = Len(log) + 1
             /\ ~e.hit
             /\ \A b \in LinesOfSet(e.set) : valid[b] )
           => /\ \A b \in LinesOfSet(e.set) : priority[b] <= priority[LineOf(e)]
              /\ \A b \in LinesOfSet(e.set) :
                    b < LineOf(e) => priority[b] < priority[LineOf(e)]
              /\ tags'[LineOf(e)] = e.tag
      ]_vars

\* a miss in a two-way set with both lines valid has replaced the line of
\* slot 0: both lines held the largest priority, or slot 0 alone
C15_Witness ==
    /\ Len(log) = 1
    /\ associativity = 2
    /\ ~log[1].hit
    /\ log[1].index = 0
    /\ \A b \in LinesOfSet(log[1].set) : valid[b]
    /\ tags[LineOf(log[1])] = log[1].tag

(***************************************************************************)
(* C16: when a probe misses in a set that has invalid lines, the line it   *)
(* fills is the invalid line of the set at the lowest slot (the original   *)
(* statement, C16_FirstInvalidFilled); on the code it is the invalid line  *)
(* at the highest slot, the last one the lookup loop meets                 *)
(* (C16_LastInvalidFilled).                                                *)
(***************************************************************************)
C16_FirstInvalidFilled ==
    \A i \in 1..Len(log) :
        LET e == log[i]
            open == {b \in LinesOfSet(e.set) : ~valid[b]}
        IN  (~e.hit /\ open # {}) =>
                /\ LineOf(e) \in open
                /\ \A b \in open : LineOf(e) <= b

C16_LastInvalidFilled ==
    \A i \in 1..Len(log) :
        LET e == log[i]
            open == {b \in LinesOfSet(e.set) : ~valid[b]}
        IN  (~e.hit /\ open # {}) =>
                /\ LineOf(e) \in open
                /\ \A b \in open : b <= LineOf(e)

\* a miss in a set with two invalid lines has filled the one of slot 1
C16_Witness ==
    /\ Len(log) = 1
    /\ ~log[1].hit
    /\ Cardinality({b \in LinesOfSet(log[1].set) : ~valid[b]}) = 2
    /\ log[1].index = 1
    /\ tags[LineOf(log[1])] = log[1].tag

(***************************************************************************)
(* C17: a probe writes only lines of the addressed set, the lines          *)
(* set * associativity .. set * associativity + associativity - 1, which   *)
(* all lie inside the capacity / block_size allocated lines; the tag,      *)
(* valid, dirty and priority of every line of every other set are          *)
(* unchanged, and the vectors keep their size.                             *)
(***************************************************************************)
AllLines == 0..((capacity \div block_size) - 1)

C17_OnlyAddressedSet ==
    [][LET e == log'[Len(log')]
       IN  Len(log') = Len(log) + 1 =>
           /\ LinesOfSet(e.set) \subseteq AllLines
           /\ LineOf(e) \in LinesOfSet(e.set)
           /\ DOMAIN tags' = AllLines /\ DOMAIN valid' = AllLines
           /\ DOMAIN dirty' = AllLines /\ DOMAIN priority' = AllLines
           /\ \A b \in AllLines \ LinesOfSet(e.set) :
                 /\ tags'[b] = tags[b]
                 /\ valid'[b] = valid[b]
                 /\ dirty'[b] = dirty[b]
                 /\ priority'[b] = priority[b]
      ]_vars

\* two sets: set 0 was written, then set 1 was accessed twice, and the line
\* of set 0 still holds its tag, its dirty flag and its priority
C17_Witness ==
    /\ set_mask = 1
    /\ Len(log) = 3
    /\ log[1].set = 0 /\ log[1].type /\ log[1].tag = 1
    /\ log[2].set = 1 /\ log[3].set = 1
    /\ tags[LineOf(log[1])] = 1
    /\ dirty[LineOf(log[1])]
    /\ priority[LineOf(log[1])] = 0
    /\ tags[LineOf(log[3])] = log[3].tag

(***************************************************************************)
(* C18: a probe that misses and fills an invalid line returns              *)
(* dirty_wb = false: a dirty writeback is reported, counted and charged    *)
(* only when the replaced line is valid.                                   *)
(***************************************************************************)
C18_NoWritebackOfInvalidLine ==
    \A i \in 1..Len(log) :
        (~log[i].hit /\ ~valid[LineOf(log[i])]) =>
            /\ ~log[i].dirty_wb
            /\ log[i].cycles = miss_penalty

(***************************************************************************)
(* C19: after a probe, also during the cold fill, exactly one line of the  *)
(* addressed set has priority 0: the line that the probe hit or filled.    *)
(***************************************************************************)
C19_OneMostRecent ==
    Len(log) >= 1 =>
        LET e == log[Len(log)]
        IN  {b \in LinesOfSet(e.set) : priority[b] = 0} = {LineOf(e)}

\* cold fill: the first access to a two-way set as constructed; the line it
\* filled has priority 0 and the other line priority 1
C19_Witness ==
    /\ Len(log) = 1
    /\ associativity = 2
    /\ ~log[1].hit
    /\ \A b \in LinesOfSet(log[1].set) : ~valid[b]
    /\ priority[LineOf(log[1])] = 0
    /\ \E b \in LinesOfSet(log[1].set) : priority[b] = 1

====
